---------------------------- MODULE Spec2Model ----------------------------
(***************************************************************************)
(* A model of nano-retry: retry(fn, options) with exponential backoff,     *)
(* per-attempt and total timeouts and AbortSignal cancellation.            *)
(*                                                                         *)
(* One call of retry is modelled.  The async function runs in synchronous  *)
(* segments that end at an await (the attempt in flight, retryIf, onRetry, *)
(* the backoff sleep); each segment is one action.  Between two segments   *)
(* the environment acts: the clock advances, the signal is aborted, a      *)
(* timer fires, a promise of the operation or of a callback settles.       *)
(* Time is in milliseconds, Date.now() - startTime is the variable now.    *)
(* Synchronous code takes no time: the clock advances only while the call  *)
(* waits.  A timer fires at its deadline or later.  The optional numbers   *)
(* are integers (retries also a half) and calculateDelay is computed in    *)
(* exact arithmetic.  fn either throws at once or returns a promise that   *)
(* settles later, or never; a value returned at once is a promise that     *)
(* settles before anything else happens.                                   *)
(***************************************************************************)
EXTENDS Integers, Sequences, FiniteSets

(***************************************************************************)
(* Bounds of the model.                                                    *)
(***************************************************************************)
MaxRetries == 2           \* retries is at most this
MaxTime == 4              \* the clock stops here unless a timer is still to fire
MaxMinTimeout == 2        \* minTimeout is at most this
SomeMaxTimeout == 3       \* the maxTimeout of the valid options
SomeFactor == 2           \* the factor of the valid options
SomeAttemptTimeout == 1   \* the attemptTimeout of the valid options that give one
MaxTotalTimeout == 3      \* totalTimeout is at most this
MaxDelayOption == 4       \* minTimeout and maxTimeout of the backoff options are at most this
MaxFactor == 3            \* factor of the backoff options is at most this
MaxBackoffRetries == 3    \* retries of the backoff options is at most this

VARIABLES
  options,      \* the RetryOptions of the call
  aborted,      \* signal.aborted
  abortedAt,    \* the value of pc when the signal was aborted ("" if it is not aborted)
  now,          \* Date.now() - startTime
  pc,           \* where the call is: "call", "attempt", "retryIf", "onRetry", "sleep", "done"
  attempt,      \* the loop counter
  lastError,    \* the variable lastError
  nextDelay,    \* the constant nextDelay of the current catch block
  context,      \* the RetryContext of the current catch block
  result,       \* how the promise returned by retry settled
  calls,        \* the attempt numbers fn was invoked with, in order
  ops,          \* ops[i]: is the i-th invocation of fn "pending" or "settled"?
  races,        \* races[i]: the withTimeout instance of the i-th invocation
  sleeper,      \* the timer and listener of sleep
  failed,       \* the number of attempts whose error the catch block caught
  retryIfLog,   \* attempt and retriesLeft of the contexts retryIf was invoked with
  retryIfSaw,   \* the nextDelay retryIf saw in the current catch block
  retryIfAnswers, \* what each retryIf invocation did: "true", "false", "throw"
  onRetryLog,   \* attempt and retriesLeft of the contexts onRetry was invoked with
  onRetrySaw,   \* the nextDelay onRetry saw in the current catch block
  onRetryAnswers, \* what each onRetry invocation did: "return", "throw"
  sleeps        \* the number of sleeps whose timer was started

vars == <<options, aborted, abortedAt, now, pc, attempt, lastError, nextDelay,
          context, result, calls, ops, races, sleeper, failed, retryIfLog,
          retryIfSaw, retryIfAnswers, onRetryLog, onRetrySaw, sleeps,
          onRetryAnswers>>

(***************************************************************************)
(* Optional values: undefined is the empty sequence, a given value x is    *)
(* <<x>>.                                                                  *)
(***************************************************************************)
undefined == <<>>
Given(x) == <<x>>
Optional(S) == {undefined} \cup {Given(x) : x \in S}

(***************************************************************************)
(* RetryOptions.  retries is the integral part of the number given and     *)
(* retriesHalf tells that the number given is that plus 0.5 (a number      *)
(* that is not an integer).  signal, retryIf and onRetry tell whether the  *)
(* option is given.                                                        *)
(***************************************************************************)
RetryOptions ==
  [retries : -1..MaxRetries,
   retriesHalf : BOOLEAN,
   minTimeout : 0..MaxMinTimeout,
   maxTimeout : {0, SomeMaxTimeout},
   factor : {0, SomeFactor},
   jitter : BOOLEAN,
   attemptTimeout : Optional({0, SomeAttemptTimeout}),
   totalTimeout : Optional(0..MaxTotalTimeout),
   signal : BOOLEAN,
   retryIf : BOOLEAN,
   onRetry : BOOLEAN]

(***************************************************************************)
(* Two more sets of RetryOptions.  ConstraintOptions gives every number a   *)
(* negative value, zero and a valid value, with every other option given   *)
(* or not.  BackoffOptions are valid options that configure only the       *)
(* backoff, over a range of minTimeout, maxTimeout and factor.             *)
(***************************************************************************)
ConstraintOptions ==
  [retries : {-1, 0, 1},
   retriesHalf : BOOLEAN,
   minTimeout : {-1, 0, 1},
   maxTimeout : {-1, 0, 1},
   factor : {-1, 0, 1},
   jitter : {FALSE},
   attemptTimeout : Optional({-1, 0, SomeAttemptTimeout}),
   totalTimeout : Optional({-1, 0, MaxTotalTimeout}),
   signal : BOOLEAN,
   retryIf : BOOLEAN,
   onRetry : BOOLEAN]

BackoffOptions ==
  [retries : 0..MaxBackoffRetries,
   retriesHalf : {FALSE},
   minTimeout : 1..MaxDelayOption,
   maxTimeout : 1..MaxDelayOption,
   factor : 1..MaxFactor,
   jitter : BOOLEAN,
   attemptTimeout : {undefined},
   totalTimeout : {undefined},
   signal : {FALSE},
   retryIf : {FALSE},
   onRetry : {FALSE}]

(***************************************************************************)
(* Errors.  id tells the objects of one class apart: the attempt in which  *)
(* the error object was created.                                           *)
(***************************************************************************)
NoError == [name |-> "", message |-> "", id |-> 0]
FnError(n) == [name |-> "Error", message |-> "thrown by fn", id |-> n]
FnAbortError(n) == [name |-> "AbortError", message |-> "thrown by fn", id |-> n]
AbortError(n) == [name |-> "AbortError", message |-> "Retry operation was aborted", id |-> n]
AttemptTimeoutError(n) == [name |-> "TimeoutError", message |-> "Attempt timed out", id |-> n]
TotalTimeoutExceeded(n) == [name |-> "TimeoutError", message |-> "Total timeout exceeded", id |-> n]
TotalTimeoutWouldBeExceeded(n) ==
  [name |-> "TimeoutError", message |-> "Total timeout would be exceeded", id |-> n]
ValidationTypeError(what) == [name |-> "TypeError", message |-> what, id |-> 0]
CallbackError(which, n) == [name |-> "Error", message |-> which, id |-> n]

Pending == [status |-> "pending", value |-> 0, reason |-> NoError]
Fulfilled(v) == [status |-> "fulfilled", value |-> v, reason |-> NoError]
Rejected(e) == [status |-> "rejected", value |-> 0, reason |-> e]


NoContext == [attempt |-> 0, retriesLeft |-> 0, elapsed |-> 0, nextDelay |-> 0]
\* What a callback is recorded to have seen of its context.
Seen(ctx) == [attempt |-> ctx.attempt, retriesLeft |-> ctx.retriesLeft]

(***************************************************************************)
(* A withTimeout instance: its flag settled, its timer (timeoutId) and its *)
(* abort listener (onAbort).  An attempt run without attemptTimeout has    *)
(* NoRace.  The sleep timer and its listener are the record sleeper.       *)
(***************************************************************************)
NoRace == [used |-> FALSE, settled |-> FALSE, timer |-> FALSE, deadline |-> 0, listener |-> FALSE]
NoSleeper == [timer |-> FALSE, ms |-> 0, deadline |-> 0, listener |-> FALSE, cleared |-> FALSE]
\* The value of retryIfSaw and onRetrySaw when the callback has not been
\* invoked in the current catch block.
NotSeen == <<>>

startTime == 0
elapsedNow == now - startTime

Min(a, b) == IF a <= b THEN a ELSE b

RECURSIVE Pow(_, _)
Pow(b, e) == IF e <= 0 THEN 1 ELSE b * Pow(b, e - 1)

\* Mutant of JitterValues: the jitter is of 50%, not of 25%.
JitterValuesOfHalf(delay) == ((delay + 1) \div 2) .. (((3 * delay + 2) \div 2) - 1)

(***************************************************************************)
(* calculateDelay: the set of the values it can return.  Without jitter    *)
(* the one value Math.round(capped).  With jitter Math.random() is any     *)
(* real of [0, 1), so the value before rounding is any real x with         *)
(* 0.75 * capped <= x < 1.25 * capped, and Math.round(x) = floor(x + 0.5)  *)
(* ranges over floor((3 * capped + 2) / 4) .. ceil((5 * capped + 2) / 4)-1 *)
(***************************************************************************)
JitterValues(delay) == ((3 * delay + 2) \div 4) .. (((5 * delay + 5) \div 4) - 1)

\* Mutant of calculateDelay: the exponent is attempt, not attempt - 1.
calculateDelayFromFactor(a, minTimeout, maxTimeout, factor, jitter) ==
  LET delay == Min(minTimeout * Pow(factor, a), maxTimeout)
  IN  IF jitter THEN JitterValues(delay) ELSE {delay}

calculateDelay(a, minTimeout, maxTimeout, factor, jitter) ==
  LET delay == Min(minTimeout * Pow(factor, a - 1), maxTimeout)
  IN  IF jitter THEN JitterValues(delay) ELSE {delay}

\* Mutant of ValidationError: minTimeout, maxTimeout, factor, attemptTimeout
\* and totalTimeout are compared with 0 by < in the place of <=.
ValidationErrorAllowsZero(o) ==
  IF o.retries < 0 \/ o.retriesHalf
    THEN ValidationTypeError("retries must be a non-negative integer")
  ELSE IF o.minTimeout < 0 THEN ValidationTypeError("minTimeout must be positive")
  ELSE IF o.maxTimeout < 0 THEN ValidationTypeError("maxTimeout must be positive")
  ELSE IF o.factor < 0 THEN ValidationTypeError("factor must be positive")
  ELSE IF o.attemptTimeout # undefined /\ o.attemptTimeout[1] < 0
    THEN ValidationTypeError("attemptTimeout must be positive")
  ELSE IF o.totalTimeout # undefined /\ o.totalTimeout[1] < 0
    THEN ValidationTypeError("totalTimeout must be positive")
  ELSE NoError

(***************************************************************************)
(* The validation of the options: the error thrown, NoError if none.       *)
(***************************************************************************)
ValidationError(o) ==
  IF o.retries < 0 \/ o.retriesHalf
    THEN ValidationTypeError("retries must be a non-negative integer")
  ELSE IF o.minTimeout <= 0 THEN ValidationTypeError("minTimeout must be positive")
  ELSE IF o.maxTimeout <= 0 THEN ValidationTypeError("maxTimeout must be positive")
  ELSE IF o.factor <= 0 THEN ValidationTypeError("factor must be positive")
  ELSE IF o.attemptTimeout # undefined /\ o.attemptTimeout[1] <= 0
    THEN ValidationTypeError("attemptTimeout must be positive")
  ELSE IF o.totalTimeout # undefined /\ o.totalTimeout[1] <= 0
    THEN ValidationTypeError("totalTimeout must be positive")
  ELSE NoError

Valid(o) == ValidationError(o) = NoError

\* Mutants of signalAborted: the signal taken as aborted whenever one is given;
\* a property of the signal that is never true.
signalAbortedWhenGiven == options.signal
signalAbortedNever == FALSE

\* signal?.aborted
signalAborted == options.signal /\ aborted

\* The for loop: its initial value, its condition, its increment.
FirstAttempt == 1
LoopCondition(a) == a <= options.retries + 1
\* Mutants of NextAttempt: the counter is not incremented; it is incremented twice.
NextAttemptStuck(a) == a
NextAttemptSkips(a) == a + 2
NextAttempt(a) == a + 1

\* Mutant of retriesLeftAt: the initial attempt is not counted.
retriesLeftOffByOne(a) == options.retries - a
\* const retriesLeft = retries + 1 - attempt
retriesLeftAt(a) == options.retries + 1 - a

\* Mutants of isLastAttempt: a comparison that is never true; one that stops
\* when one retry is left.
isLastAttemptNever(retriesLeft) == retriesLeft < 0
isLastAttemptEarly(retriesLeft) == retriesLeft = 1
\* const isLastAttempt = retriesLeft === 0
isLastAttempt(retriesLeft) == retriesLeft = 0

\* Mutants of isAbortError: no error is taken for an AbortError; a TimeoutError
\* is taken for one too.
isAbortErrorNever(error) == FALSE
isAbortOrTimeoutError(error) == error.name \in {"AbortError", "TimeoutError"}
\* error instanceof AbortError
isAbortError(error) == error.name = "AbortError"

\* Mutant of shouldRetry: the answer of retryIf is not looked at.
shouldRetryAlways(answer) == TRUE
\* const shouldRetry = await retryIf(error, context), for an answer that is not a throw
shouldRetry(answer) == answer = "true"

\* Mutant of TotalTimeoutReached: > in the place of >=.
TotalTimeoutReachedStrict == options.totalTimeout # undefined /\ elapsedNow > options.totalTimeout[1]

\* elapsed >= totalTimeout at the top of an iteration
TotalTimeoutReached == options.totalTimeout # undefined /\ elapsedNow >= options.totalTimeout[1]

\* Mutant of TotalTimeoutWouldBeReached: the time remaining is compared with 0.
TotalTimeoutWouldBeReachedNow(d) ==
  options.totalTimeout # undefined /\ options.totalTimeout[1] - elapsedNow < 0

\* timeRemaining < nextDelay before the sleep
TotalTimeoutWouldBeReached(d) ==
  options.totalTimeout # undefined /\ options.totalTimeout[1] - elapsedNow < d

(***************************************************************************)
(* The code of retry, in the order of its control flow from the end.  Each *)
(* operator is the rest of a synchronous segment and sets the variables    *)
(* named in its comment; the action that uses it sets the others.          *)
(***************************************************************************)
\* throw e out of retry / return v from retry.  Sets pc, result.
Throw(e) == pc' = "done" /\ result' = Rejected(e)
Return(v) == pc' = "done" /\ result' = Fulfilled(v)

\* Mutant of sleep: no abort listener is added.
sleepWithoutListener(a, ms) ==
  IF signalAborted
    THEN /\ Throw(AbortError(a))
         /\ sleeper' = NoSleeper
         /\ UNCHANGED sleeps
    ELSE /\ pc' = "sleep"
         /\ sleeper' = [timer |-> TRUE, ms |-> ms, deadline |-> now + ms,
                        listener |-> FALSE, cleared |-> FALSE]
         /\ sleeps' = sleeps + 1
         /\ UNCHANGED result

\* sleep(ms, signal) up to its return.  Sets pc, result, sleeper, sleeps.
sleep(a, ms) ==
  IF signalAborted
    THEN /\ Throw(AbortError(a))
         /\ sleeper' = NoSleeper
         /\ UNCHANGED sleeps
    ELSE /\ pc' = "sleep"
         /\ sleeper' = [timer |-> TRUE, ms |-> ms, deadline |-> now + ms,
                        listener |-> options.signal, cleared |-> FALSE]
         /\ sleeps' = sleeps + 1
         /\ UNCHANGED result

\* Mutant of CheckTimeAndSleep: the delay is calculated again for the check
\* and the sleep.
CheckTimeAndSleepRecalculates(a, d) ==
  \E again \in calculateDelay(a, options.minTimeout, options.maxTimeout,
                              options.factor, options.jitter) :
    IF TotalTimeoutWouldBeReached(again)
      THEN /\ Throw(TotalTimeoutWouldBeExceeded(a))
           /\ sleeper' = NoSleeper
           /\ UNCHANGED sleeps
      ELSE sleep(a, again)

\* "Check if we have time for another attempt", then the sleep of d ms.
\* Sets pc, result, sleeper, sleeps.
CheckTimeAndSleep(a, d) ==
  IF TotalTimeoutWouldBeReached(d)
    THEN /\ Throw(TotalTimeoutWouldBeExceeded(a))
         /\ sleeper' = NoSleeper
         /\ UNCHANGED sleeps
    ELSE sleep(a, d)

\* Mutant of CallOnRetry: onRetry is not called.
CallOnRetrySkipped(a, d, ctx) ==
  /\ UNCHANGED <<onRetryLog, onRetrySaw>>
  /\ CheckTimeAndSleep(a, d)

\* "Call onRetry callback" and, when there is none, what follows it.
\* Sets pc, result, sleeper, sleeps, onRetryLog, onRetrySaw.
CallOnRetry(a, d, ctx) ==
  IF options.onRetry
    THEN /\ pc' = "onRetry"
         /\ onRetryLog' = Append(onRetryLog, Seen(ctx))
         /\ onRetrySaw' = <<ctx.nextDelay>>
         /\ sleeper' = NoSleeper
         /\ UNCHANGED <<result, sleeps>>
    ELSE /\ UNCHANGED <<onRetryLog, onRetrySaw>>
         /\ CheckTimeAndSleep(a, d)

\* The catch block for the error of attempt a, up to its first await.
\* Sets pc, result, lastError, failed, nextDelay, context, retryIfLog,
\* retryIfSaw, onRetryLog, onRetrySaw, sleeper, sleeps.
Catch(a, error) ==
  /\ lastError' = error
  /\ failed' = failed + 1
  /\ IF isAbortError(error) \/ isLastAttempt(retriesLeftAt(a))
       THEN /\ Throw(error)
            /\ sleeper' = NoSleeper
            /\ nextDelay' = 0
            /\ context' = NoContext
            /\ retryIfSaw' = NotSeen
            /\ onRetrySaw' = NotSeen
            /\ UNCHANGED <<retryIfLog, onRetryLog, sleeps>>
       ELSE \E d \in calculateDelay(a, options.minTimeout, options.maxTimeout,
                                    options.factor, options.jitter) :
              LET ctx == [attempt |-> a, retriesLeft |-> retriesLeftAt(a),
                          elapsed |-> elapsedNow, nextDelay |-> d]
              IN  /\ nextDelay' = d
                  /\ context' = ctx
                  /\ IF options.retryIf
                       THEN /\ pc' = "retryIf"
                            /\ retryIfLog' = Append(retryIfLog, Seen(ctx))
                            /\ retryIfSaw' = <<ctx.nextDelay>>
                            /\ onRetrySaw' = NotSeen
                            /\ sleeper' = NoSleeper
                            /\ UNCHANGED <<result, onRetryLog, sleeps>>
                       ELSE /\ retryIfSaw' = NotSeen
                            /\ UNCHANGED retryIfLog
                            /\ IF options.onRetry
                                 THEN CallOnRetry(a, d, ctx)
                                 ELSE /\ onRetrySaw' = NotSeen
                                      /\ UNCHANGED onRetryLog
                                      /\ CheckTimeAndSleep(a, d)

\* An iteration begins and no catch block is entered: the constants of the
\* last catch block are gone.
NoCatch ==
  /\ sleeper' = NoSleeper
  /\ nextDelay' = 0
  /\ context' = NoContext
  /\ retryIfSaw' = NotSeen
  /\ onRetrySaw' = NotSeen
  /\ UNCHANGED <<lastError, failed, retryIfLog, onRetryLog, sleeps>>

\* What Catch sets, left as it is.
CatchUnchanged ==
  UNCHANGED <<pc, result, lastError, failed, nextDelay, context, retryIfLog,
              retryIfSaw, onRetryLog, onRetrySaw, sleeper, sleeps>>

\* Mutant of NewRace: withTimeout starts no timer.
NewRaceWithoutTimer ==
  IF options.attemptTimeout = undefined THEN NoRace
  ELSE [used |-> TRUE, settled |-> FALSE, timer |-> FALSE,
        deadline |-> 0, listener |-> options.signal]

\* Mutant of NewRace: withTimeout adds no abort listener.
NewRaceWithoutListener ==
  IF options.attemptTimeout = undefined THEN NoRace
  ELSE [used |-> TRUE, settled |-> FALSE, timer |-> TRUE,
        deadline |-> now + options.attemptTimeout[1], listener |-> FALSE]

\* The withTimeout instance of an attempt begun at this moment.  Its first
\* check of signal?.aborted follows the check of the loop in the same
\* synchronous segment and finds the signal not aborted.
NewRace ==
  IF options.attemptTimeout = undefined THEN NoRace
  ELSE [used |-> TRUE, settled |-> FALSE, timer |-> TRUE,
        deadline |-> now + options.attemptTimeout[1], listener |-> options.signal]

\* settled = true; cleanup()
Settle(race) ==
  IF race.used
    THEN [used |-> TRUE, settled |-> TRUE, timer |-> FALSE, deadline |-> 0, listener |-> FALSE]
    ELSE race

(***************************************************************************)
(* One iteration of the for loop with the counter at a, from the loop      *)
(* condition to the await of the attempt; a fn that throws instead of      *)
(* returning a promise leads on into the catch block.  After the loop,     *)
(* throw lastError.  Sets attempt, calls, ops, races and all that Catch    *)
(* sets.                                                                   *)
(***************************************************************************)
Iteration(a) ==
  /\ attempt' = a
  /\ IF ~LoopCondition(a)
       THEN Throw(lastError) /\ NoCatch /\ UNCHANGED <<calls, ops, races>>
     ELSE IF TotalTimeoutReached
       THEN Throw(TotalTimeoutExceeded(a)) /\ NoCatch /\ UNCHANGED <<calls, ops, races>>
     ELSE IF signalAborted
       THEN Throw(AbortError(a)) /\ NoCatch /\ UNCHANGED <<calls, ops, races>>
     ELSE /\ calls' = Append(calls, a)
          /\ races' = Append(races, NewRace)
          /\ \E how \in {"pending", "throw", "throwAbort"} :
               IF how = "pending"
                 THEN /\ ops' = Append(ops, "pending")
                      /\ pc' = "attempt"
                      /\ NoCatch
                      /\ UNCHANGED result
                 ELSE /\ ops' = Append(ops, "settled")
                      /\ Catch(a, IF how = "throw" THEN FnError(a) ELSE FnAbortError(a))

(***************************************************************************)
(* The actions.                                                            *)
(***************************************************************************)
\* retry is called: the validation, the first check of the signal, and the
\* first iteration up to its await.
Retry ==
  /\ pc = "call"
  /\ IF ~Valid(options)
       THEN /\ Throw(ValidationError(options))
            /\ NoCatch
            /\ UNCHANGED <<attempt, calls, ops, races>>
     ELSE IF signalAborted
       THEN /\ Throw(AbortError(0))
            /\ NoCatch
            /\ UNCHANGED <<attempt, calls, ops, races>>
     ELSE Iteration(FirstAttempt)
  /\ UNCHANGED <<options, aborted, abortedAt, now, retryIfAnswers, onRetryAnswers>>

\* Mutant of Awaited: the flag settled of withTimeout and the number of the
\* attempt are not looked at.
AwaitedWhateverSettled(i) == pc = "attempt"

\* Does retry await the i-th invocation of fn: directly, or through a
\* withTimeout instance that has not settled?
Awaited(i) == pc = "attempt" /\ i = attempt /\ ~races[i].settled

\* The promise of the i-th invocation of fn settles.  When retry awaits it,
\* retry returns its value or enters the catch block; otherwise the handlers
\* of withTimeout find settled true and do nothing.  Once retry has ended no
\* code of the call reads the promise.
FnSettles(i, how) ==
  /\ pc # "done"
  /\ i \in DOMAIN ops
  /\ ops[i] = "pending"
  /\ ops' = [ops EXCEPT ![i] = "settled"]
  /\ IF Awaited(i)
       THEN /\ races' = [races EXCEPT ![i] = Settle(races[i])]
            /\ IF how = "fulfill"
                 THEN Return(i) /\ NoCatch
                 ELSE Catch(i, IF how = "reject" THEN FnError(i) ELSE FnAbortError(i))
       ELSE UNCHANGED races /\ CatchUnchanged
  /\ UNCHANGED <<options, aborted, abortedAt, now, attempt, calls, retryIfAnswers,
                 onRetryAnswers>>

\* The timer of the i-th withTimeout instance fires.
AttemptTimerFires(i) ==
  /\ i \in DOMAIN races
  /\ races[i].timer
  /\ now >= races[i].deadline
  /\ races' = [races EXCEPT ![i] =
                 IF races[i].settled THEN [races[i] EXCEPT !.timer = FALSE, !.deadline = 0]
                 ELSE Settle(races[i])]
  /\ IF Awaited(i)
       THEN Catch(i, AttemptTimeoutError(i))
       ELSE CatchUnchanged
  /\ UNCHANGED <<options, aborted, abortedAt, now, attempt, calls, ops, retryIfAnswers,
                 onRetryAnswers>>

\* Is something of the call still registered: a timer, a listener?
TimerArmed == sleeper.timer \/ \E i \in DOMAIN races : races[i].timer
ListenerRegistered == sleeper.listener \/ \E i \in DOMAIN races : races[i].listener

\* The owner of the signal aborts it; the abort event runs every listener
\* registered: onAbort of sleep, onAbort of the withTimeout instances.  Once
\* retry has ended an abort is modelled only while a listener is registered.
Abort ==
  /\ options.signal
  /\ ~aborted
  /\ pc # "call"
  /\ pc = "done" => ListenerRegistered
  /\ aborted' = TRUE
  /\ abortedAt' = pc
  /\ races' = [i \in DOMAIN races |->
                 IF races[i].listener
                   THEN IF races[i].settled THEN [races[i] EXCEPT !.listener = FALSE]
                        ELSE Settle(races[i])
                   ELSE races[i]]
  /\ IF pc = "sleep" /\ sleeper.listener
       THEN /\ Throw(AbortError(attempt))
            /\ sleeper' = [sleeper EXCEPT !.timer = FALSE, !.listener = FALSE, !.cleared = TRUE]
            /\ UNCHANGED <<lastError, failed, nextDelay, context, retryIfLog,
                           retryIfSaw, onRetryLog, onRetrySaw, sleeps>>
     ELSE IF Awaited(attempt) /\ races[attempt].listener
       THEN Catch(attempt, AbortError(attempt))
     ELSE CatchUnchanged
  /\ UNCHANGED <<options, now, attempt, calls, ops, retryIfAnswers, onRetryAnswers>>

\* retryIf settles: it returns true or false, or it throws.
RetryIfSettles(answer) ==
  /\ pc = "retryIf"
  /\ retryIfAnswers' = Append(retryIfAnswers, answer)
  /\ IF answer = "throw"
       THEN /\ Throw(CallbackError("retryIf", attempt))
            /\ UNCHANGED <<sleeper, sleeps, onRetryLog, onRetrySaw>>
     ELSE IF ~shouldRetry(answer)
       THEN /\ Throw(lastError)
            /\ UNCHANGED <<sleeper, sleeps, onRetryLog, onRetrySaw>>
     ELSE CallOnRetry(attempt, nextDelay, context)
  /\ UNCHANGED <<options, aborted, abortedAt, now, attempt, lastError, failed,
                 nextDelay, context, retryIfLog, retryIfSaw, calls, ops, races,
                 onRetryAnswers>>

\* Mutant of OnRetrySettles: an error thrown by onRetry is caught and dropped.
OnRetrySettlesSwallows(answer) ==
  /\ pc = "onRetry"
  /\ onRetryAnswers' = Append(onRetryAnswers, answer)
  /\ CheckTimeAndSleep(attempt, nextDelay)
  /\ UNCHANGED <<options, aborted, abortedAt, now, attempt, lastError, failed,
                 nextDelay, context, retryIfLog, retryIfSaw, retryIfAnswers,
                 onRetryLog, onRetrySaw, calls, ops, races>>

\* onRetry settles: it returns, or it throws.
OnRetrySettles(answer) ==
  /\ pc = "onRetry"
  /\ onRetryAnswers' = Append(onRetryAnswers, answer)
  /\ IF answer = "throw"
       THEN /\ Throw(CallbackError("onRetry", attempt))
            /\ UNCHANGED <<sleeper, sleeps>>
       ELSE CheckTimeAndSleep(attempt, nextDelay)
  /\ UNCHANGED <<options, aborted, abortedAt, now, attempt, lastError, failed,
                 nextDelay, context, retryIfLog, retryIfSaw, retryIfAnswers,
                 onRetryLog, onRetrySaw, calls, ops, races>>

\* The timer of sleep fires: the listener is removed, sleep returns, and the
\* loop goes on with the next iteration.
SleepTimerFires ==
  /\ pc = "sleep"
  /\ sleeper.timer
  /\ now >= sleeper.deadline
  /\ Iteration(NextAttempt(attempt))
  /\ UNCHANGED <<options, aborted, abortedAt, now, retryIfAnswers, onRetryAnswers>>

\* The clock advances by one millisecond, while the call waits for something
\* or one of its timers is still to fire.  A timer may fire late.  The clock
\* stops at MaxTime unless a timer is still to reach its deadline.
Tick ==
  /\ pc \in {"attempt", "retryIf", "onRetry", "sleep"} \/ (pc = "done" /\ TimerArmed)
  /\ \/ now < MaxTime
     \/ sleeper.timer /\ now < sleeper.deadline
     \/ \E i \in DOMAIN races : races[i].timer /\ now < races[i].deadline
  /\ now' = now + 1
  /\ UNCHANGED <<options, aborted, abortedAt, pc, attempt, lastError, nextDelay,
                 context, result, calls, ops, races, sleeper, failed, retryIfLog,
                 retryIfSaw, retryIfAnswers, onRetryLog, onRetrySaw, sleeps,
          onRetryAnswers>>

\* The state before the call, for options drawn from a set.
InitWith(optionSet) ==
  /\ options \in optionSet
  /\ aborted \in (IF options.signal THEN BOOLEAN ELSE {FALSE})
  /\ abortedAt = IF aborted THEN "call" ELSE ""
  /\ now = 0
  /\ pc = "call"
  /\ attempt = 0
  /\ lastError = NoError
  /\ nextDelay = 0
  /\ context = NoContext
  /\ result = Pending
  /\ calls = <<>>
  /\ ops = <<>>
  /\ races = <<>>
  /\ sleeper = NoSleeper
  /\ failed = 0
  /\ retryIfLog = <<>>
  /\ retryIfSaw = NotSeen
  /\ retryIfAnswers = <<>>
  /\ onRetryLog = <<>>
  /\ onRetrySaw = NotSeen
  /\ onRetryAnswers = <<>>
  /\ sleeps = 0

Init == InitWith(RetryOptions)

Next ==
  \/ Retry
  \/ \E i \in DOMAIN ops, how \in {"fulfill", "reject", "rejectAbort"} : FnSettles(i, how)
  \/ \E i \in DOMAIN races : AttemptTimerFires(i)
  \/ Abort
  \/ \E answer \in {"true", "false", "throw"} : RetryIfSettles(answer)
  \/ \E answer \in {"return", "throw"} : OnRetrySettles(answer)
  \/ SleepTimerFires
  \/ Tick

Spec == Init /\ [][Next]_vars

\* The call with the options of ConstraintOptions and of BackoffOptions.
InitOptions == InitWith(ConstraintOptions \cup BackoffOptions)
SpecOptions == InitOptions /\ [][Next]_vars

(***************************************************************************)
(* The call under fairness.  The event loop runs every callback that is    *)
(* due: retry is called, time passes while a timer waits for its deadline, *)
(* a timer that has reached its deadline fires, and the promises of        *)
(* retryIf and onRetry settle.  The owner of the signal need not abort it. *)
(* The promise of fn settles in the end where no withTimeout stands        *)
(* between it and retry; under withTimeout it may stay pending for ever.   *)
(***************************************************************************)
FnSettlesUnlessTimed ==
  /\ options.attemptTimeout = undefined
  /\ \E i \in DOMAIN ops, how \in {"fulfill", "reject", "rejectAbort"} : FnSettles(i, how)

Fairness ==
  /\ WF_vars(Retry)
  /\ WF_vars(Tick)
  /\ WF_vars(\E i \in DOMAIN races : AttemptTimerFires(i))
  /\ WF_vars(SleepTimerFires)
  /\ WF_vars(\E answer \in {"true", "false", "throw"} : RetryIfSettles(answer))
  /\ WF_vars(\E answer \in {"return", "throw"} : OnRetrySettles(answer))
  /\ WF_vars(FnSettlesUnlessTimed)

\* Options for the call under fairness: every option given or not, every
\* count of retries and an invalid one, one value for each delay and timeout.
FairOptions ==
  [retries : -1..MaxRetries,
   retriesHalf : {FALSE},
   minTimeout : {1},
   maxTimeout : {SomeMaxTimeout},
   factor : {SomeFactor},
   jitter : {FALSE},
   attemptTimeout : Optional({SomeAttemptTimeout}),
   totalTimeout : Optional({MaxTotalTimeout}),
   signal : BOOLEAN,
   retryIf : BOOLEAN,
   onRetry : BOOLEAN]

InitFair == InitWith(FairOptions)
SpecFair == InitFair /\ [][Next]_vars /\ Fairness

(***************************************************************************)
(* The claims.                                                             *)
(***************************************************************************)
Terminated == pc = "done"
Last(seq) == seq[Len(seq)]
LogEntries == {retryIfLog[j] : j \in DOMAIN retryIfLog} \cup {onRetryLog[j] : j \in DOMAIN onRetryLog}
\* retryIf, where configured, has answered true each time it has answered.
RetryIfAlwaysTrue == \A j \in DOMAIN retryIfAnswers : retryIfAnswers[j] = "true"

\* C1: for every valid configuration one call of retry invokes the operation
\* at most retries + 1 times, whatever the operation, the callbacks, the clock
\* and the signal do.
C1_AtMostRetriesPlusOne ==
  Valid(options) => Len(calls) <= options.retries + 1

\* C1 witness: a call that has used all its MaxRetries + 1 invocations.
C1_Witness ==
  /\ Valid(options)
  /\ options.retries = MaxRetries
  /\ Terminated
  /\ Len(calls) = options.retries + 1

\* C2 as stated: every terminated call with a valid configuration has invoked
\* the operation at least once.
C2_Original ==
  (Valid(options) /\ Terminated) => Len(calls) >= 1

\* C2 amended: every terminated call with a valid configuration whose signal
\* was not aborted when retry was called has invoked the operation at least
\* once.
C2_AtLeastOnceUnlessAbortedAtCall ==
  (Valid(options) /\ Terminated /\ abortedAt # "call") => Len(calls) >= 1

\* C2 witness: a call with a signal that ended after one invocation.
C2_Witness ==
  /\ Valid(options)
  /\ options.signal
  /\ Terminated
  /\ abortedAt # "call"
  /\ Len(calls) = 1

\* C3: the attempt numbers passed to the operation are 1, 2, 3, ... in that
\* order and none is above retries + 1.
C3_AttemptNumbersInOrder ==
  Valid(options) =>
    \A i \in DOMAIN calls : calls[i] = i /\ calls[i] <= options.retries + 1

\* C3 witness: the operation has been invoked with 1, 2 and 3.
C3_Witness == calls = <<1, 2, 3>>

\* C4: when all retries + 1 attempts have failed and the last error is not an
\* AbortError, retry has failed with the error of the last attempt, the one
\* created in attempt retries + 1: the error of fn or the TimeoutError of that
\* attempt, and not a wrapper.
C4_LastErrorSurfaces ==
  (Valid(options) /\ Terminated /\ failed = options.retries + 1 /\ ~isAbortError(lastError)) =>
    /\ result = Rejected(lastError)
    /\ lastError \in {FnError(options.retries + 1), AttemptTimeoutError(options.retries + 1)}
    /\ Len(calls) = options.retries + 1

\* C4 witness: three attempts failed and retry failed with the error of the third.
C4_Witness ==
  /\ Valid(options)
  /\ Terminated
  /\ options.retries = 2
  /\ failed = 3
  /\ result = Rejected(FnError(3))

\* C5: with retries = 0 and a signal not aborted at the call, the operation is
\* invoked exactly once, no sleep is started and no callback is invoked; when
\* the invocation has failed retry has failed with that same error.
C5_ZeroRetries ==
  (Valid(options) /\ options.retries = 0 /\ abortedAt # "call" /\ pc # "call") =>
    /\ calls = <<1>>
    /\ sleeps = 0
    /\ ~sleeper.timer
    /\ retryIfLog = <<>>
    /\ onRetryLog = <<>>
    /\ failed >= 1 => (Terminated /\ failed = 1 /\ lastError.id = 1 /\ result = Rejected(lastError))

\* C5 witness: retries = 0 and the one invocation failed.
C5_Witness ==
  /\ Valid(options)
  /\ options.retries = 0
  /\ Terminated
  /\ calls = <<1>>
  /\ result = Rejected(FnError(1))

\* C6: when retryIf has returned false for a failed attempt, retry has ended
\* with the error of that attempt; no sleep was started after it, no further
\* attempt was invoked and onRetry was not invoked for that failure.
C6_RetryIfFalseStops ==
  (retryIfAnswers # <<>> /\ Last(retryIfAnswers) = "false") =>
    /\ Terminated
    /\ result = Rejected(lastError)
    /\ lastError.id = Last(retryIfLog).attempt
    /\ lastError.name \in {"Error", "TimeoutError"}
    /\ Len(calls) = Last(retryIfLog).attempt
    /\ sleeps = Len(calls) - 1
    /\ ~sleeper.timer
    /\ \A j \in DOMAIN onRetryLog : onRetryLog[j].attempt # Last(retryIfLog).attempt

\* C6 witness: retryIf returned false for the second failure, with onRetry configured.
C6_Witness ==
  /\ options.onRetry
  /\ retryIfAnswers = <<"true", "false">>
  /\ Terminated

\* C7 as stated: for every terminated call with an onRetry callback, the
\* number of onRetry invocations is min(failed attempts, retries).
C7_Original ==
  (Valid(options) /\ options.onRetry /\ Terminated) =>
    Len(onRetryLog) = Min(failed, options.retries)

\* C7 amended: for every terminated call with an onRetry callback, the number
\* of onRetry invocations is at most min(failed attempts, retries), and equal
\* to it when no attempt failed with an AbortError and retryIf, if given,
\* returned true every time; onRetry is not invoked for the failure of the
\* last permitted attempt nor for the attempt that succeeds.
C7_OnRetryCount ==
  (Valid(options) /\ options.onRetry /\ Terminated) =>
    /\ Len(onRetryLog) <= Min(failed, options.retries)
    /\ (~isAbortError(lastError) /\ RetryIfAlwaysTrue) =>
         Len(onRetryLog) = Min(failed, options.retries)
    /\ \A j \in DOMAIN onRetryLog : onRetryLog[j].attempt <= options.retries
    /\ result.status = "fulfilled" =>
         \A j \in DOMAIN onRetryLog : onRetryLog[j].attempt < result.value

\* C7 witness: three failed attempts, two retries, onRetry invoked twice.
C7_Witness ==
  /\ Valid(options)
  /\ options.onRetry
  /\ Terminated
  /\ options.retries = 2
  /\ failed = 3
  /\ Len(onRetryLog) = 2

\* C8: every context passed to retryIf or onRetry has attempt equal to the
\* number of the attempt that just failed and retriesLeft = retries + 1 -
\* attempt, with retriesLeft between 1 and retries.
C8_ContextFields ==
  /\ \A e \in LogEntries :
       /\ e.attempt + e.retriesLeft = options.retries + 1
       /\ e.retriesLeft >= 1
       /\ e.retriesLeft <= options.retries
       /\ e.attempt \in DOMAIN calls
  /\ pc = "retryIf" =>
       /\ Last(retryIfLog) = Seen(context)
       /\ context.attempt = Last(calls)
       /\ context.attempt = failed
  /\ pc = "onRetry" =>
       /\ Last(onRetryLog) = Seen(context)
       /\ context.attempt = Last(calls)
       /\ context.attempt = failed

\* C8 witness: onRetry is running for the second failure, with one retry left.
C8_Witness ==
  /\ pc = "onRetry"
  /\ options.retryIf
  /\ Len(onRetryLog) = 2
  /\ context.retriesLeft = 1

\* C9: when the signal is already aborted as retry is called with a valid
\* configuration, the operation is invoked zero times, no callback is invoked,
\* no sleep is started, and retry fails with an AbortError.
C9_AbortedBeforeCall ==
  (Valid(options) /\ abortedAt = "call") =>
    /\ calls = <<>>
    /\ retryIfLog = <<>>
    /\ onRetryLog = <<>>
    /\ sleeps = 0
    /\ pc \in {"call", "done"}
    /\ Terminated => (result.status = "rejected" /\ isAbortError(result.reason))

\* C9 witness: a call with an aborted signal has ended.
C9_Witness ==
  /\ Valid(options)
  /\ abortedAt = "call"
  /\ Terminated
  /\ result = Rejected(AbortError(0))

\* C10: when the signal has been aborted during a sleep between two attempts,
\* retry has ended with an AbortError at that moment: the timer of the sleep
\* was cleared and has not fired, nothing of the sleep is registered, and no
\* attempt was invoked after the sleep began.
C10_AbortDuringSleep ==
  abortedAt = "sleep" =>
    /\ Terminated
    /\ result = Rejected(AbortError(attempt))
    /\ sleeper.cleared
    /\ ~sleeper.timer
    /\ ~sleeper.listener
    /\ Len(calls) = attempt
    /\ sleeps = Len(calls)

\* C10 witness: the signal was aborted before the timer of the sleep was due.
C10_Witness ==
  /\ abortedAt = "sleep"
  /\ Terminated
  /\ now < sleeper.deadline

\* C11 as stated: when the signal has been aborted while an attempt was in
\* flight, with or without attemptTimeout, a call that has ended has ended
\* with an AbortError.
C11_Original ==
  (Valid(options) /\ abortedAt = "attempt" /\ Terminated) =>
    (result.status = "rejected" /\ result.reason.name = "AbortError")

\* C11 amended: when attemptTimeout is configured and the signal has been
\* aborted while an attempt was in flight, retry has ended at that moment with
\* an AbortError, whatever the operation does afterwards; retryIf and onRetry
\* were not invoked for that attempt and nothing of its withTimeout instance
\* is registered.
C11_AbortDuringAttemptWithTimeout ==
  (abortedAt = "attempt" /\ options.attemptTimeout # undefined) =>
    /\ Terminated
    /\ result = Rejected(AbortError(attempt))
    /\ lastError = AbortError(attempt)
    /\ Len(calls) = attempt
    /\ \A e \in LogEntries : e.attempt # attempt
    /\ ~races[attempt].timer
    /\ ~races[attempt].listener

\* C11 witness: the signal was aborted during the second attempt, run under
\* attemptTimeout with retryIf configured, before its timer was due.
C11_Witness ==
  /\ abortedAt = "attempt"
  /\ options.attemptTimeout # undefined
  /\ options.retryIf
  /\ options.retries = 2
  /\ attempt = 2
  /\ ops[2] = "pending"
  /\ Terminated

\* C12: once the signal is aborted no invocation of the operation begins,
\* wherever the call was when the signal was aborted.
C12_NoInvocationAfterAbort ==
  [][aborted => calls' = calls]_vars

\* C12 witness: the signal was aborted while retryIf ran after a failed
\* attempt, retryIf answered true, and the call ended with no further attempt.
C12_Witness ==
  /\ abortedAt = "retryIf"
  /\ retryIfAnswers = <<"true">>
  /\ options.retries = 2
  /\ Terminated
  /\ calls = <<1>>

\* C14: when an attempt has failed with an AbortError, of the abort listener
\* of withTimeout or thrown by the operation, retry has ended with that same
\* error: retryIf and onRetry were not invoked for that attempt, no sleep was
\* started after it and no further attempt was invoked.
C14_AbortErrorNotRetried ==
  (failed >= 1 /\ lastError.name = "AbortError") =>
    /\ Terminated
    /\ result = Rejected(lastError)
    /\ lastError.id = attempt
    /\ failed = attempt
    /\ Len(calls) = attempt
    /\ sleeps = attempt - 1
    /\ ~sleeper.timer
    /\ \A e \in LogEntries : e.attempt # attempt

\* C14 witness: the operation threw an AbortError in the first attempt, with
\* two retries left and retryIf and onRetry configured.
C14_Witness ==
  /\ options.retries = 2
  /\ options.retryIf
  /\ options.onRetry
  /\ Terminated
  /\ result = Rejected(FnAbortError(1))

\* C13 is about an iteration that begins with the signal aborted and
\* totalTimeout reached.  An iteration begins when retry is called, right
\* after the check that throws for an aborted signal, or when a sleep ends,
\* and a sleep with the signal aborted has ended with an AbortError: no
\* iteration begins with the signal aborted.
SignalNotAbortedAtIterationStart ==
  /\ (pc = "sleep" => ~aborted)
  /\ (pc = "call" /\ aborted) => abortedAt = "call"

\* C15: with attemptTimeout configured, an attempt whose operation had not
\* settled when the timer of withTimeout fired is a failed attempt like any
\* other, with a TimeoutError: it counts among the failed attempts, retryIf is
\* invoked for it when retries are left, the sleep that follows is the backoff
\* delay calculated for it, and retry ends with that error only after the last
\* permitted attempt or when retryIf has returned false; when every attempt
\* has timed out retry has failed with the TimeoutError of the last attempt.
C15_AttemptTimeoutIsFailure ==
  /\ lastError.message = "Attempt timed out" =>
       LET k == lastError.id IN
       /\ lastError = AttemptTimeoutError(k)
       /\ options.attemptTimeout # undefined
       /\ now >= options.attemptTimeout[1]
       /\ failed = k
       /\ k <= Len(calls)
       /\ k <= options.retries + 1
       /\ (k <= options.retries /\ options.retryIf) =>
            \E j \in DOMAIN retryIfLog : retryIfLog[j].attempt = k
       /\ (k = attempt /\ pc = "sleep") =>
            /\ sleeper.ms = nextDelay
            /\ nextDelay \in calculateDelay(k, options.minTimeout, options.maxTimeout,
                                            options.factor, options.jitter)
       /\ k = options.retries + 1 => (Terminated /\ result = Rejected(lastError))
       /\ (k <= options.retries /\ Terminated /\ result = Rejected(lastError)) =>
            (options.retryIf /\ Last(retryIfAnswers) = "false")
  /\ (Valid(options) /\ Terminated /\ ~aborted /\ failed = options.retries + 1
        /\ \A i \in DOMAIN ops : ops[i] = "pending") =>
       result = Rejected(AttemptTimeoutError(options.retries + 1))

\* C15 witness: three attempts, each ended by the timer of withTimeout with
\* its operation still pending; retryIf answered true twice; retry has failed
\* with the TimeoutError of the third.
C15_Witness ==
  /\ options.retries = 2
  /\ options.retryIf
  /\ Terminated
  /\ ops = <<"pending", "pending", "pending">>
  /\ failed = 3
  /\ sleeps = 2
  /\ retryIfAnswers = <<"true", "true">>
  /\ result = Rejected(AttemptTimeoutError(3))

\* The messages of the TimeoutError of totalTimeout.
TotalTimeoutMessages == {"Total timeout exceeded", "Total timeout would be exceeded"}

\* C16 as stated: with totalTimeout configured, a call that ends at an elapsed
\* time greater than totalTimeout ends with the TimeoutError of totalTimeout,
\* not in success and not with an error of the operation.
C16_Original ==
  [][(/\ Valid(options)
      /\ options.totalTimeout # undefined
      /\ elapsedNow > options.totalTimeout[1]
      /\ pc # "done"
      /\ pc' = "done")
     => (/\ result'.status = "rejected"
         /\ result'.reason.name = "TimeoutError"
         /\ result'.reason.message \in TotalTimeoutMessages)]_vars

\* totalTimeout is configured and the elapsed time is totalTimeout or more.
ElapsedIsTotalTimeoutOrMore ==
  options.totalTimeout # undefined /\ now - startTime >= options.totalTimeout[1]

\* C17: with totalTimeout configured no invocation of the operation begins
\* when the elapsed time is totalTimeout or more; a sleep that ends at such a
\* time ends the call with the TimeoutError "Total timeout exceeded" and the
\* operation is not invoked.
C17_NoInvocationAtTotalTimeout ==
  [][/\ calls' # calls => ~ElapsedIsTotalTimeoutOrMore
     /\ (pc = "sleep" /\ pc' # "sleep" /\ aborted' = aborted /\ ElapsedIsTotalTimeoutOrMore) =>
          /\ pc' = "done"
          /\ result' = Rejected(TotalTimeoutExceeded(attempt + 1))
          /\ calls' = calls
          /\ ops' = ops]_vars

\* C17 witness: the sleep after the first failure ended when totalTimeout was
\* reached, and the call ended after the one invocation.
C17_Witness ==
  /\ Terminated
  /\ result = Rejected(TotalTimeoutExceeded(2))
  /\ calls = <<1>>
  /\ options.retries = 2
  /\ now = options.totalTimeout[1]

\* C18: with totalTimeout configured, a sleep is started only when elapsed +
\* nextDelay is at most totalTimeout, so the timer of every sleep is due at
\* totalTimeout at the latest; when elapsed + nextDelay is more, retry has
\* ended with the TimeoutError "Total timeout would be exceeded", with no sleep
\* started for that failure and no attempt after it.
C18_SleepFitsTotalTimeout ==
  options.totalTimeout # undefined =>
    /\ pc = "sleep" =>
         /\ sleeper.ms = nextDelay
         /\ sleeper.deadline <= startTime + options.totalTimeout[1]
         /\ sleeps = attempt
    /\ result.reason.message = "Total timeout would be exceeded" =>
         /\ Terminated
         /\ result = Rejected(TotalTimeoutWouldBeExceeded(attempt))
         /\ elapsedNow + nextDelay > options.totalTimeout[1]
         /\ Len(calls) = attempt
         /\ failed = attempt
         /\ sleeps = attempt - 1
         /\ ~sleeper.timer

\* C18 witness: there was time for the sleep after the first failure and not
\* for the sleep after the second.
C18_Witness ==
  /\ Terminated
  /\ result = Rejected(TotalTimeoutWouldBeExceeded(2))
  /\ options.retries = 2
  /\ sleeps = 1
  /\ nextDelay >= 1

\* The constraints on the configuration: is one of them violated?
ViolatesConstraint(o) ==
  \/ o.retries < 0
  \/ o.retriesHalf
  \/ o.minTimeout <= 0
  \/ o.maxTimeout <= 0
  \/ o.factor <= 0
  \/ (o.attemptTimeout # undefined /\ o.attemptTimeout[1] <= 0)
  \/ (o.totalTimeout # undefined /\ o.totalTimeout[1] <= 0)

\* C19: a call whose configuration violates a constraint (retries negative or
\* not an integer; minTimeout, maxTimeout, factor, attemptTimeout or
\* totalTimeout zero or negative) invokes neither the operation nor retryIf
\* nor onRetry, starts no timer and adds no listener, and ends with a
\* TypeError, also when its signal is aborted.
C19_InvalidConfigurationFails ==
  ViolatesConstraint(options) =>
    /\ pc \in {"call", "done"}
    /\ calls = <<>>
    /\ ops = <<>>
    /\ races = <<>>
    /\ retryIfLog = <<>>
    /\ onRetryLog = <<>>
    /\ sleeps = 0
    /\ ~TimerArmed
    /\ ~ListenerRegistered
    /\ Terminated => (result.status = "rejected" /\ result.reason.name = "TypeError")

\* C19 witness: a call with attemptTimeout 0, all else valid, and a signal
\* that is aborted has ended with the TypeError of attemptTimeout.
C19_Witness ==
  /\ options.retries = 1
  /\ ~options.retriesHalf
  /\ options.minTimeout = 1
  /\ options.maxTimeout = 1
  /\ options.factor = 1
  /\ options.attemptTimeout = Given(0)
  /\ options.totalTimeout = Given(-1)
  /\ options.retryIf
  /\ options.onRetry
  /\ aborted
  /\ Terminated
  /\ result = Rejected(ValidationTypeError("attemptTimeout must be positive"))

\* min(baseDelay * growthFactor^(n-1), maxDelay) for the options of the call.
ExpectedDelay(n) ==
  LET raw == options.minTimeout * Pow(options.factor, n - 1)
  IN  IF raw <= options.maxTimeout THEN raw ELSE options.maxTimeout

\* C20: with jitter disabled, the sleep after failed attempt n, for n from 1
\* to retries, is started with min(minTimeout * factor^(n-1), maxTimeout)
\* milliseconds, and attempt n + 1 is invoked only when that time has passed
\* since the sleep was started.
C20_DelayWithoutJitter ==
  [][(pc = "sleep" /\ ~options.jitter) =>
       /\ attempt \in 1..options.retries
       /\ failed = attempt
       /\ nextDelay = ExpectedDelay(attempt)
       /\ sleeper.ms = ExpectedDelay(attempt)
       /\ calls' # calls =>
            /\ calls' = Append(calls, attempt + 1)
            /\ now >= sleeper.deadline
            /\ sleeper.deadline - sleeper.ms >= 0]_vars

\* C20 witness: with minTimeout 1, factor 2 and maxTimeout 4 the sleep after
\* the third failed attempt is one of 4 ms (after those of 1 ms and 2 ms) and
\* its time has passed.
C20_Witness ==
  /\ ~options.jitter
  /\ options.minTimeout = 1
  /\ options.factor = 2
  /\ options.maxTimeout = 4
  /\ pc = "sleep"
  /\ attempt = 3
  /\ sleeper.ms = 4
  /\ now = sleeper.deadline

\* C21 as stated: no sleep between two attempts is started with more than
\* maxTimeout milliseconds, with jitter as without.
C21_Original ==
  pc = "sleep" => sleeper.ms <= options.maxTimeout

\* C22 as stated: with jitter every computed delay d has 0.75 * capped <= d
\* <= 1.25 * capped, and more than one value is possible for the attempt.
C22_Original ==
  (options.jitter /\ pc = "sleep") =>
    /\ 3 * ExpectedDelay(attempt) <= 4 * nextDelay
    /\ 4 * nextDelay <= 5 * ExpectedDelay(attempt)
    /\ \E d \in calculateDelay(attempt, options.minTimeout, options.maxTimeout,
                               options.factor, options.jitter) : d # nextDelay

\* C22 amended: with jitter every computed delay d is the integer nearest to a
\* value of the range from 0.75 * capped to 1.25 * capped, so that
\* 0.75 * capped - 0.5 < d < 1.25 * capped + 0.5; more than one value is
\* possible for the attempt when capped is 3 or more.
C22_JitterWithinHalfOfRange ==
  (options.jitter /\ pc = "sleep") =>
    /\ 3 * ExpectedDelay(attempt) - 2 < 4 * nextDelay
    /\ 4 * nextDelay < 5 * ExpectedDelay(attempt) + 2
    /\ sleeper.ms = nextDelay
    /\ ExpectedDelay(attempt) >= 3 =>
         \E d \in calculateDelay(attempt, options.minTimeout, options.maxTimeout,
                                 options.factor, options.jitter) : d # nextDelay

\* C22 witness: capped is 3 for the second failed attempt and the delay is 2,
\* the integer nearest to a value between 2.25 and 2.5.
C22_Witness ==
  /\ options.jitter
  /\ pc = "sleep"
  /\ attempt = 2
  /\ ExpectedDelay(attempt) = 3
  /\ nextDelay = 2

\* The invocations of the operation that have not settled.
Unsettled == {i \in DOMAIN ops : ops[i] = "pending"}

\* C23 as stated: in every reachable state at most one invocation of the
\* operation started by the call is unsettled, also with attemptTimeout.
C23_Original ==
  Cardinality(Unsettled) <= 1

\* C25: when retryIf or onRetry has thrown, retry has ended with the error of
\* the callback, which is not the error of the operation; no sleep was
\* started after it, no further attempt was invoked, and onRetry was not
\* invoked after a retryIf that threw.
C25_CallbackErrorPropagates ==
  /\ (retryIfAnswers # <<>> /\ Last(retryIfAnswers) = "throw") =>
       /\ Terminated
       /\ result = Rejected(CallbackError("retryIf", attempt))
       /\ result.reason # lastError
       /\ Len(retryIfAnswers) = attempt
       /\ Len(calls) = attempt
       /\ sleeps = attempt - 1
       /\ ~sleeper.timer
       /\ Len(onRetryLog) <= attempt - 1
  /\ (onRetryAnswers # <<>> /\ Last(onRetryAnswers) = "throw") =>
       /\ Terminated
       /\ result = Rejected(CallbackError("onRetry", attempt))
       /\ result.reason # lastError
       /\ Len(onRetryAnswers) = attempt
       /\ Len(calls) = attempt
       /\ sleeps = attempt - 1
       /\ ~sleeper.timer

\* C25 witness: onRetry returned after the first failure and threw after the
\* second, with a retry left.
C25_Witness ==
  /\ options.retries = 2
  /\ onRetryAnswers = <<"return", "throw">>
  /\ Terminated
  /\ result = Rejected(CallbackError("onRetry", 2))

\* C26: when retry has resolved, it has resolved with the value of the attempt
\* it awaited last, every attempt before it failed, and nothing was done after
\* it: no attempt, no sleep, no retryIf and no onRetry for that attempt or a
\* later one.
C26_FirstSuccessIsResult ==
  result.status = "fulfilled" =>
    /\ Terminated
    /\ result.value = attempt
    /\ Len(calls) = attempt
    /\ ops[attempt] = "settled"
    /\ failed = attempt - 1
    /\ sleeps = attempt - 1
    /\ ~sleeper.timer
    /\ \A e \in LogEntries : e.attempt < attempt
    /\ Len(retryIfAnswers) = Len(retryIfLog)
    /\ Len(onRetryAnswers) = Len(onRetryLog)

\* C26 witness: the first attempt timed out, its operation settled while the
\* second attempt was in flight, and retry resolved with the value of the
\* second attempt.
C26_Witness ==
  /\ result = Fulfilled(2)
  /\ lastError = AttemptTimeoutError(1)
  /\ ops = <<"settled", "settled">>
  /\ options.retries = 2

\* C27: after a failed attempt that is retried the steps are taken one after
\* the other.  While retryIf runs, onRetry has not been invoked for the
\* failure and no sleep was started for it; while onRetry runs, retryIf (if
\* given) has returned true and no sleep was started; a sleep is started only
\* when retryIf has returned true and onRetry has returned, and it is due at
\* totalTimeout at the latest; an attempt after the first is invoked only
\* from a sleep whose timer is due.
C27_StepsInOrder ==
  [][/\ pc = "retryIf" =>
          /\ Len(calls) = attempt
          /\ Len(retryIfLog) = attempt
          /\ Len(retryIfAnswers) = attempt - 1
          /\ Len(onRetryLog) = (IF options.onRetry THEN attempt - 1 ELSE 0)
          /\ Len(onRetryAnswers) = Len(onRetryLog)
          /\ sleeps = attempt - 1
          /\ ~sleeper.timer
     /\ pc = "onRetry" =>
          /\ Len(calls) = attempt
          /\ options.retryIf => (Len(retryIfAnswers) = attempt /\ Last(retryIfAnswers) = "true")
          /\ Len(onRetryLog) = attempt
          /\ Len(onRetryAnswers) = attempt - 1
          /\ sleeps = attempt - 1
          /\ ~sleeper.timer
     /\ pc = "sleep" =>
          /\ Len(calls) = attempt
          /\ options.retryIf => (Len(retryIfAnswers) = attempt /\ Last(retryIfAnswers) = "true")
          /\ options.onRetry => (Len(onRetryAnswers) = attempt /\ Last(onRetryAnswers) = "return")
          /\ options.totalTimeout # undefined => sleeper.deadline <= options.totalTimeout[1]
          /\ sleeps = attempt
          /\ sleeper.timer
     /\ (calls' # calls /\ calls # <<>>) =>
          /\ pc = "sleep"
          /\ now >= sleeper.deadline
          /\ calls' = Append(calls, Len(calls) + 1)]_vars

\* C27 witness: the second attempt was invoked after retryIf returned true,
\* onRetry returned and the sleep ended, with totalTimeout configured.
C27_Witness ==
  /\ options.retryIf
  /\ options.onRetry
  /\ options.totalTimeout # undefined
  /\ calls = <<1, 2>>
  /\ pc = "attempt"
  /\ retryIfAnswers = <<"true">>
  /\ onRetryAnswers = <<"return">>
  /\ sleeps = 1

\* C28: the delay is calculated once for a failed attempt: the nextDelay of
\* the context retryIf saw, the one onRetry saw, the one compared with the
\* time remaining and the time of the sleep are the same value, one of those
\* calculateDelay gives for the attempt, also with jitter; and at most one
\* sleep is started for each failed attempt.
C28_OneDelayPerFailure ==
  /\ retryIfSaw # NotSeen => retryIfSaw = <<nextDelay>>
  /\ onRetrySaw # NotSeen => onRetrySaw = <<nextDelay>>
  /\ pc = "retryIf" => retryIfSaw # NotSeen
  /\ pc = "onRetry" => (onRetrySaw # NotSeen /\ (options.retryIf => retryIfSaw # NotSeen))
  /\ pc \in {"retryIf", "onRetry", "sleep"} =>
       \/ options.jitter /\ 3 * ExpectedDelay(attempt) - 2 < 4 * nextDelay
                         /\ 4 * nextDelay < 5 * ExpectedDelay(attempt) + 2
       \/ ~options.jitter /\ nextDelay = ExpectedDelay(attempt)
  /\ pc = "sleep" =>
       /\ sleeper.ms = nextDelay
       /\ sleeper.deadline <= now + nextDelay
       /\ options.retryIf => retryIfSaw = <<sleeper.ms>>
       /\ options.onRetry => onRetrySaw = <<sleeper.ms>>
       /\ options.totalTimeout # undefined => sleeper.deadline <= options.totalTimeout[1]
  /\ result.reason.message = "Total timeout would be exceeded" =>
       elapsedNow + nextDelay > options.totalTimeout[1]
  /\ sleeps <= failed
  /\ failed >= 1 => sleeps >= failed - 1

\* C28 witness: with jitter, retryIf and onRetry, the delay calculated for the
\* second failure is 4 where capped is 3; both callbacks saw 4 and the sleep
\* is one of 4 ms.
C28_Witness ==
  /\ options.jitter
  /\ pc = "sleep"
  /\ attempt = 2
  /\ ExpectedDelay(attempt) = 3
  /\ retryIfSaw = <<4>>
  /\ onRetrySaw = <<4>>
  /\ sleeper.ms = 4

\* C29 as stated: when retry has ended, no timer and no abort listener of the
\* call is registered.
C29_Original ==
  Terminated => (~TimerArmed /\ ~ListenerRegistered)

\* C30: every attempt after the first follows one sleep and, with onRetry
\* configured, one onRetry invocation that has returned, for the attempt
\* before it: the number of sleeps started, and of onRetry invocations, is
\* the number of attempts invoked or one less, and it is one less while an
\* attempt is in flight and when retry has resolved.
C30_OneSleepAndOnRetryPerRetry ==
  /\ Len(calls) >= 1 => sleeps \in {Len(calls) - 1, Len(calls)}
  /\ Len(calls) = 0 => (sleeps = 0 /\ onRetryLog = <<>>)
  /\ options.onRetry =>
       /\ Len(calls) >= 1 => Len(onRetryLog) \in {Len(calls) - 1, Len(calls)}
       /\ \A j \in DOMAIN onRetryLog : onRetryLog[j].attempt = j
       /\ Len(onRetryLog) <= sleeps + 1
       /\ sleeps <= Len(onRetryLog)
  /\ ~options.onRetry => onRetryLog = <<>>
  /\ (pc = "attempt" \/ result.status = "fulfilled") =>
       /\ sleeps = Len(calls) - 1
       /\ options.onRetry =>
            /\ Len(onRetryLog) = Len(calls) - 1
            /\ Len(onRetryAnswers) = Len(calls) - 1
            /\ \A j \in DOMAIN onRetryAnswers : onRetryAnswers[j] = "return"

\* C30 witness: retry resolved with the value of the third attempt after two
\* onRetry invocations and two sleeps.
C30_Witness ==
  /\ options.onRetry
  /\ result = Fulfilled(3)
  /\ calls = <<1, 2, 3>>
  /\ Len(onRetryLog) = 2
  /\ sleeps = 2

C33_LoopEndsInsideTheLoop ==
  Valid(options) =>
    /\ attempt <= options.retries + 1
    /\ pc \in {"retryIf", "onRetry", "sleep"} => attempt <= options.retries

\* C33 witness: with retries = 1, attempt 2 timed out and retry threw the
\* TimeoutError of attempt 2 from inside the loop.
C33_Witness ==
  /\ Valid(options)
  /\ options.retries = 1
  /\ Terminated
  /\ attempt = 2
  /\ calls = <<1, 2>>
  /\ result = Rejected(AttemptTimeoutError(2))

\* C32 as stated: under fairness the call of retry ends with one of four
\* outcomes: a value, an error of the operation, a TimeoutError or an
\* AbortError.  This is the part of the statement a finite run refutes: no
\* call has ended with another outcome.
C32_Original ==
  Terminated =>
    \/ result.status = "fulfilled"
    \/ result.status = "rejected" /\ result.reason.message = "thrown by fn"
    \/ result.status = "rejected" /\ result.reason.name \in {"TimeoutError", "AbortError"}

\* C32: when timers fire, retryIf and onRetry settle, and every invocation
\* of fn settles unless attemptTimeout is configured, the call of retry ends
\* with exactly one outcome: a value, an error of the operation, a
\* TimeoutError, an AbortError, the error thrown by retryIf or onRetry, or
\* the TypeError of the validation; once it has ended neither the outcome
\* nor the end changes.  With attemptTimeout configured this holds even when
\* no invocation of fn ever settles.
C32_RetryTerminates ==
  /\ <>Terminated
  /\ [](Terminated =>
          \/ result.status = "fulfilled"
          \/ /\ result.status = "rejected"
             /\ \/ result.reason.message \in {"thrown by fn", "retryIf", "onRetry"}
                \/ result.reason.name \in {"TimeoutError", "AbortError", "TypeError"})
  /\ [][Terminated => (Terminated' /\ result' = result)]_vars

\* C32 witness: with attemptTimeout configured and retries = 1, neither
\* invocation of fn has settled and retry has ended with the TimeoutError of
\* attempt 2.
C32_Witness ==
  /\ Terminated
  /\ options.attemptTimeout # undefined
  /\ options.retries = 1
  /\ ops = <<"pending", "pending">>
  /\ result = Rejected(AttemptTimeoutError(2))

=============================================================================
